---- MODULE Spec2Model ----
(***************************************************************************)
(* Hex Zone Control (src/game.js): the rules engine of a two-player        *)
(* hexagonal board game with Othello-style line captures, zone-of-control   *)
(* surround captures, flips staged by setTimeout, and game-over detection. *)
(*                                                                         *)
(* The state is the gameState object, the pending setTimeout callbacks and *)
(* the game-over modal's text.  One action per handler: placeTile, a flip  *)
(* batch timer, the finish timer, resetGame.                               *)
(***************************************************************************)
EXTENDS Integers, Sequences, FiniteSets, TLC

\* ------------------------------------------------------------ constants
GRID_SIZE == 8
TILES_PER_PLAYER == 20
delayIncrement == 150

WHITE == "white"
BLACK == "black"
PLAYER == {WHITE, BLACK}

\* ------------------------------------------------------------ bounds
\* The last FreeMoves placements of a game are clicked anywhere in Arena;
\* the placements before them follow OpeningScript.
FreeMoves == 5
\* resetGame is pressed at most MaxResets times.
MaxResets == 1
\* resetGame is pressed during the opening, within ResetWindow placements
\* after it, or once the game is over.
ResetWindow == 2
\* After a reset, at most PostResetMoves placements are explored.
PostResetMoves == 2
\* Placements of the short games the zone of control is computed in.
ZocMoves == 2

\* ------------------------------------------------------------ hex math
isValidHex(q, r) ==
    LET s == (-q) - r
        abs(x) == IF x < 0 THEN -x ELSE x
    IN  abs(q) < GRID_SIZE /\ abs(r) < GRID_SIZE /\ abs(s) < GRID_SIZE

\* E, NE, NW, W, SW, SE
directions ==
    << [q |-> 1, r |-> 0], [q |-> 1, r |-> -1], [q |-> 0, r |-> -1],
       [q |-> -1, r |-> 0], [q |-> -1, r |-> 1], [q |-> 0, r |-> 1] >>

getSurroundingHexes(q, r) ==
    [d \in 1..6 |-> [q |-> q + directions[d].q, r |-> r + directions[d].r]]

getZOCHexes(q, r) == <<[q |-> q, r |-> r]>> \o getSurroundingHexes(q, r)

\* `${q},${r}`
hexKey(q, r) == ToString(q) \o "," \o ToString(r)

\* key.split(',').map(Number): the pair of integers the key was formatted
\* from, tabulated over the coordinates a key of the tiles map can hold.
KeyRange == (-GRID_SIZE)..GRID_SIZE
KeyCoords ==
    [k \in {hexKey(q, r) : q \in KeyRange, r \in KeyRange} |->
        CHOOSE c \in [q : KeyRange, r : KeyRange] : hexKey(c.q, c.r) = k]
parseKey(key) == KeyCoords[key]

\* ------------------------------------------------------------ the tiles Map
\* A JavaScript Map keeps its entries in insertion order; set() on a key
\* already present keeps the entry's position.  A map is a sequence of
\* [key, player] entries.
MapHas(t, key) == \E i \in 1..Len(t) : t[i].key = key
MapGet(t, key) ==
    IF MapHas(t, key)
    THEN t[CHOOSE i \in 1..Len(t) : t[i].key = key].player
    ELSE "undefined"
MapSet(t, key, player) ==
    IF MapHas(t, key)
    THEN [i \in 1..Len(t) |->
            IF t[i].key = key THEN [key |-> key, player |-> player] ELSE t[i]]
    ELSE Append(t, [key |-> key, player |-> player])

Opponent(player) == IF player = WHITE THEN BLACK ELSE WHITE

\* Concatenation of the sequences f[1], ..., f[n].
RECURSIVE Concat(_, _)
Concat(f, n) == IF n = 0 THEN <<>> ELSE Concat(f, n - 1) \o f[n]

getPlayerTiles(t, player) ==
    LET mine(e) == e.player = player
        own == SelectSeq(t, mine)
    IN  [i \in 1..Len(own) |-> parseKey(own[i].key)]

\* Mutant of calculateZOC: the hexes off the board are not filtered out.
calculateZOC_NoBoardFilter(t, player) ==
    LET playerTiles == getPlayerTiles(t, player)
    IN  { hexKey(h.q, h.r) :
            h \in UNION { {getZOCHexes(playerTiles[i].q, playerTiles[i].r)[j] : j \in 1..7}
                          : i \in 1..Len(playerTiles) } }

calculateZOC(t, player) ==
    LET playerTiles == getPlayerTiles(t, player)
    IN  { hexKey(h.q, h.r) :
            h \in { z \in UNION { {getZOCHexes(playerTiles[i].q, playerTiles[i].r)[j] : j \in 1..7}
                                  : i \in 1..Len(playerTiles) }
                    : isValidHex(z.q, z.r) } }

\* Mutant of isTileSurrounded: a neighbour off the board is not skipped, it
\* counts as an escape.
isTileSurrounded_EdgeEscapes(q, r, enemyZOC) ==
    \A d \in 1..6 :
        LET hex == getSurroundingHexes(q, r)[d]
        IN  isValidHex(hex.q, hex.r) /\ hexKey(hex.q, hex.r) \in enemyZOC

isTileSurrounded(q, r, enemyZOC) ==
    \A d \in 1..6 :
        LET hex == getSurroundingHexes(q, r)[d]
        IN  isValidHex(hex.q, hex.r) => hexKey(hex.q, hex.r) \in enemyZOC

\* One direction of getTilesInStraightLines, from (q, r) on.
RECURSIVE StraightLine(_, _, _, _, _)
StraightLine(t, q, r, dir, player) ==
    IF isValidHex(q, r) /\ MapGet(t, hexKey(q, r)) = player
    THEN <<[q |-> q, r |-> r]>> \o StraightLine(t, q + dir.q, r + dir.r, dir, player)
    ELSE <<>>

getTilesInStraightLines(t, startQ, startR, player) ==
    Concat([d \in 1..6 |->
              StraightLine(t, startQ + directions[d].q, startR + directions[d].r,
                           directions[d], player)], 6)

\* Mutant of OthelloLine: a run that reaches the board edge is captured.
RECURSIVE OthelloLine_EdgeCloses(_, _, _, _, _, _, _)
OthelloLine_EdgeCloses(t, q, r, dir, distance, currentPlayer, lineFlips) ==
    IF ~isValidHex(q, r) THEN lineFlips
    ELSE LET tileOwner == MapGet(t, hexKey(q, r))
         IN  IF tileOwner = Opponent(currentPlayer)
             THEN OthelloLine_EdgeCloses(t, q + dir.q, r + dir.r, dir, distance + 1,
                                         currentPlayer,
                                         Append(lineFlips, [q |-> q, r |-> r, distance |-> distance]))
             ELSE IF tileOwner = currentPlayer THEN lineFlips
             ELSE <<>>

\* Mutant of OthelloLine: every tile of the run is recorded with distance 1.
RECURSIVE OthelloLine_RankOne(_, _, _, _, _, _, _)
OthelloLine_RankOne(t, q, r, dir, distance, currentPlayer, lineFlips) ==
    IF ~isValidHex(q, r) THEN <<>>
    ELSE LET tileOwner == MapGet(t, hexKey(q, r))
         IN  IF tileOwner = Opponent(currentPlayer)
             THEN OthelloLine_RankOne(t, q + dir.q, r + dir.r, dir, distance, currentPlayer,
                                      Append(lineFlips, [q |-> q, r |-> r, distance |-> distance]))
             ELSE IF tileOwner = currentPlayer THEN lineFlips
             ELSE <<>>

\* One direction of getOthelloFlips, from (q, r) on: the while loop, with
\* lineFlips collected so far.
RECURSIVE OthelloLine(_, _, _, _, _, _, _)
OthelloLine(t, q, r, dir, distance, currentPlayer, lineFlips) ==
    IF ~isValidHex(q, r) THEN <<>>
    ELSE LET tileOwner == MapGet(t, hexKey(q, r))
         IN  IF tileOwner = Opponent(currentPlayer)
             THEN OthelloLine(t, q + dir.q, r + dir.r, dir, distance + 1, currentPlayer,
                              Append(lineFlips, [q |-> q, r |-> r, distance |-> distance]))
             ELSE IF tileOwner = currentPlayer THEN lineFlips
             ELSE <<>>

getOthelloFlips(t, placedQ, placedR, currentPlayer) ==
    Concat([d \in 1..6 |->
              OthelloLine(t, placedQ + directions[d].q, placedR + directions[d].r,
                          directions[d], 1, currentPlayer, <<>>)], 6)

getSurroundedFlips(t, attackingPlayer) ==
    LET defendingPlayer == Opponent(attackingPlayer)
        attackerZOC == calculateZOC(t, attackingPlayer)
        defendingTiles == getPlayerTiles(t, defendingPlayer)
        flipsOf(tile) ==
            IF isTileSurrounded(tile.q, tile.r, attackerZOC)
            THEN LET linesTiles == getTilesInStraightLines(t, tile.q, tile.r, defendingPlayer)
                 IN  <<[q |-> tile.q, r |-> tile.r, distance |-> 1]>> \o
                     [idx \in 1..Len(linesTiles) |->
                        [q |-> linesTiles[idx].q, r |-> linesTiles[idx].r,
                         distance |-> idx + 1]]
            ELSE <<>>
    IN  Concat([i \in 1..Len(defendingTiles) |-> flipsOf(defendingTiles[i])],
               Len(defendingTiles))

\* allFlipsMap after the flips of `more` are inserted into it, each only
\* when its key is not yet there; the map is kept as its values in
\* insertion order.
RECURSIVE InsertFlips(_, _)
InsertFlips(allFlips, more) ==
    IF more = <<>> THEN allFlips
    ELSE LET flip == Head(more)
             present == \E i \in 1..Len(allFlips) :
                            hexKey(allFlips[i].q, allFlips[i].r) = hexKey(flip.q, flip.r)
         IN  InsertFlips(IF present THEN allFlips ELSE Append(allFlips, flip), Tail(more))

\* Mutant of MergeFlips: the surround captures are inserted first.
MergeFlips_SurroundFirst(othelloFlips, surroundedFlips) ==
    InsertFlips(InsertFlips(<<>>, surroundedFlips), othelloFlips)

MergeFlips(othelloFlips, surroundedFlips) ==
    InsertFlips(InsertFlips(<<>>, othelloFlips), surroundedFlips)

\* ------------------------------------------------------------ timers
\* animateFlips: the distances present, ascending.
RECURSIVE SortedDistances(_)
SortedDistances(S) ==
    IF S = {} THEN <<>>
    ELSE LET m == CHOOSE x \in S : \A y \in S : x <= y
         IN  <<m>> \o SortedDistances(S \ {m})

\* Mutant of animateFlips: the finish callback is not scheduled.
animateFlips_NoFinish(flips, newPlayer) ==
    LET distances == SortedDistances({flips[i].distance : i \in 1..Len(flips)})
        atDist(dist) == LET same(f) == f.distance = dist IN SelectSeq(flips, same)
    IN  [k \in 1..Len(distances) |->
            [kind |-> "flips", due |-> (k - 1) * delayIncrement,
             flips |-> atDist(distances[k]), newPlayer |-> newPlayer]]

\* The setTimeout calls of animateFlips(flips, newPlayer), in the order they
\* are made: one flip batch per distance, then the finish callback.
animateFlips(flips, newPlayer) ==
    LET distances == SortedDistances({flips[i].distance : i \in 1..Len(flips)})
        atDist(dist) == LET same(f) == f.distance = dist IN SelectSeq(flips, same)
    IN  [k \in 1..Len(distances) |->
            [kind |-> "flips", due |-> (k - 1) * delayIncrement,
             flips |-> atDist(distances[k]), newPlayer |-> newPlayer]]
        \o <<[kind |-> "finish", due |-> Len(distances) * delayIncrement,
              flips |-> <<>>, newPlayer |-> newPlayer]>>

\* The timer lists the platform may keep after setTimeout(callback, delay),
\* each in the order the callbacks will run; timer.due is the delay asked
\* for and placement names the placeTile call that asks (history). A
\* callback always runs after the pending callbacks registered with the
\* same delay. A pending callback y of another delay runs after the new one
\* when more is left of y's delay than the new delay, and before it when
\* y was registered with a shorter delay and no callback of the new
\* callback's delay is pending before y. Otherwise the order depends on
\* the platform and on how long the thread stays busy: a platform that
\* orders callbacks by the time they are due may count the new delay from
\* a clock that lags, and a platform that keeps one queue per delay (node)
\* runs the new callback, once its delay is over, right behind the pending
\* callbacks of the same delay, before callbacks of other delays that are
\* due as well. A new callback that goes first is due no later than the
\* one behind it.
AddTimer(pending, timer, placement) ==
    LET mayPrecede(y) == y.due <= timer.due
        mayFollow(y) == y.due > timer.due \/ y.delay > timer.due
        sameQueue(p) ==
            /\ p >= 1 /\ pending[p].delay = timer.due
            /\ \A j \in (p + 1)..Len(pending) : pending[j].delay # timer.due
        places == {p \in 0..Len(pending) :
                      /\ \A j \in 1..p : mayPrecede(pending[j])
                      /\ \/ \A j \in (p + 1)..Len(pending) : mayFollow(pending[j])
                         \/ sameQueue(p)}
        entry(p) == [kind |-> timer.kind,
                     due |-> IF p < Len(pending) /\ pending[p + 1].due < timer.due
                             THEN pending[p + 1].due ELSE timer.due,
                     delay |-> timer.due, flips |-> timer.flips,
                     newPlayer |-> timer.newPlayer, placement |-> placement]
    IN  {SubSeq(pending, 1, p) \o <<entry(p)>> \o SubSeq(pending, p + 1, Len(pending)) :
            p \in places}

RECURSIVE AddTimers(_, _, _)
AddTimers(pending, new, placement) ==
    IF new = <<>> THEN {pending}
    ELSE UNION {AddTimers(list, Tail(new), placement) :
                   list \in AddTimer(pending, Head(new), placement)}

\* The timer list once its first callback has run: its due time has passed.
AfterFiring(pending) ==
    [i \in 1..(Len(pending) - 1) |->
        [pending[i + 1] EXCEPT !.due = pending[i + 1].due - pending[1].due]]

\* Mutant of flipTiles: only the first flip of a batch is applied.
flipTiles_FirstOnly(t, flips, newPlayer) ==
    IF flips = <<>> THEN t
    ELSE MapSet(t, hexKey(Head(flips).q, Head(flips).r), newPlayer)

\* Mutant of flipTiles: the key is built from r and q, in that order.
RECURSIVE flipTiles_SwappedKey(_, _, _)
flipTiles_SwappedKey(t, flips, newPlayer) ==
    IF flips = <<>> THEN t
    ELSE flipTiles_SwappedKey(MapSet(t, hexKey(Head(flips).r, Head(flips).q), newPlayer),
                              Tail(flips), newPlayer)

\* flipsAtDist.forEach(flip => gameState.tiles.set(hexKey(flip.q, flip.r), newPlayer))
RECURSIVE flipTiles(_, _, _)
flipTiles(t, flips, newPlayer) ==
    IF flips = <<>> THEN t
    ELSE flipTiles(MapSet(t, hexKey(Head(flips).q, Head(flips).r), newPlayer),
                   Tail(flips), newPlayer)

\* ------------------------------------------------------------ scoring
countTiles(t) ==
    [white |-> Cardinality({i \in 1..Len(t) : t[i].player = WHITE}),
     black |-> Cardinality({i \in 1..Len(t) : t[i].player # WHITE})]

\* ------------------------------------------------------------ state
VARIABLES
    currentPlayer,          \* gameState.currentPlayer
    tiles,                  \* gameState.tiles
    whiteTilesRemaining,    \* gameState.whiteTilesRemaining
    blackTilesRemaining,    \* gameState.blackTilesRemaining
    lastPlacedTile,         \* gameState.lastPlacedTile; null is the tile of player "null"
    gameOver,               \* gameState.gameOver
    isAnimating,            \* gameState.isAnimating
    timers,                 \* pending setTimeout callbacks, in firing order
    modal,                  \* the game-over modal: hidden, winner text, final score
    call,                   \* history: the handler that ran last, its arguments and result
    turn,                   \* history: the last accepted placement
    resets                  \* history: number of resetGame calls

gameVars == <<currentPlayer, tiles, whiteTilesRemaining, blackTilesRemaining,
              lastPlacedTile, gameOver, isAnimating>>
vars == <<currentPlayer, tiles, whiteTilesRemaining, blackTilesRemaining,
          lastPlacedTile, gameOver, isAnimating, timers, modal, call, turn, resets>>

NoCall(op) == [op |-> op, q |-> 0, r |-> 0, ret |-> FALSE]
NoTurn ==
    [id |-> [game |-> 0, move |-> 0],
     active |-> FALSE, finished |-> FALSE, player |-> WHITE, q |-> 0, r |-> 0,
     before |-> <<>>, white |-> 0, black |-> 0,
     othello |-> <<>>, surrounded |-> <<>>, flips |-> <<>>, applied |-> 0]

Init ==
    /\ currentPlayer = WHITE
    /\ tiles = <<>>
    /\ whiteTilesRemaining = TILES_PER_PLAYER
    /\ blackTilesRemaining = TILES_PER_PLAYER
    /\ lastPlacedTile = [q |-> 0, r |-> 0, player |-> "null"]
    /\ gameOver = FALSE
    /\ isAnimating = FALSE
    /\ timers = <<>>
    /\ modal = [hidden |-> TRUE, winnerText |-> "", finalScore |-> ""]
    /\ call = NoCall("init")
    /\ turn = NoTurn
    /\ resets = 0

\* ------------------------------------------------------------ the players' clicks
\* The cells clicked while a game is opened: White and Black alternate
\* through this list (White builds a group in the west, Black one in the
\* south, then both approach the east corner).
OpeningScript ==
    << [q |-> 0, r |-> 0], [q |-> -6, r |-> 6], [q |-> -7, r |-> 0], [q |-> -6, r |-> 7],
       [q |-> -7, r |-> 1], [q |-> -5, r |-> 5], [q |-> -6, r |-> -1], [q |-> -5, r |-> 6],
       [q |-> -6, r |-> 0], [q |-> -5, r |-> 7], [q |-> -6, r |-> 1], [q |-> -4, r |-> 5],
       [q |-> -5, r |-> -2], [q |-> -4, r |-> 6], [q |-> -5, r |-> -1], [q |-> -4, r |-> 7],
       [q |-> -5, r |-> 0], [q |-> -3, r |-> 5], [q |-> -5, r |-> 1], [q |-> -3, r |-> 6],
       [q |-> -4, r |-> -3], [q |-> -3, r |-> 7], [q |-> -4, r |-> -2], [q |-> -2, r |-> 4],
       [q |-> -4, r |-> -1], [q |-> -2, r |-> 5], [q |-> -4, r |-> 0], [q |-> -2, r |-> 6],
       [q |-> -3, r |-> -3], [q |-> 7, r |-> -2], [q |-> -3, r |-> -2], [q |-> 6, r |-> 1],
       [q |-> 7, r |-> -3], [q |-> 5, r |-> 2], [q |-> 6, r |-> -1] >>

\* The cells clicked in the last FreeMoves placements: the east corner.
Arena ==
    { [q |-> 7, r |-> 0], [q |-> 7, r |-> -1], [q |-> 6, r |-> 0],
      [q |-> 5, r |-> 1], [q |-> 5, r |-> 0], [q |-> 6, r |-> -2] }

\* Clicks that placeTile must refuse: a cell off the board, and the first
\* cell of the opening (occupied from the first move on).
OffBoard == [q |-> GRID_SIZE, r |-> 0]
Probes == {OffBoard, OpeningScript[1]}

\* The time, in ms, the players let pass between two events while
\* callbacks are pending: less than the delay between two flip batches.
Waits == {100}

Placed == (TILES_PER_PLAYER - whiteTilesRemaining) + (TILES_PER_PLAYER - blackTilesRemaining)
ScriptLen == 2 * TILES_PER_PLAYER - FreeMoves

\* The cells clicked in a game started by resetGame: the corner cell and
\* the neighbour that surrounds it.
Corner == { [q |-> 7, r |-> 0], [q |-> 6, r |-> 0] }

\* The first game is opened by the script and goes on in the east corner;
\* a game started by resetGame is played in the corner.
Clicks ==
    IF resets >= 1
    THEN (IF Placed < PostResetMoves THEN Probes \cup Corner ELSE {})
    ELSE Probes \cup (IF Placed < ScriptLen THEN {OpeningScript[Placed + 1]} ELSE Arena)

\* ------------------------------------------------------------ handlers
\* Mutant of placeTileRejects: the isAnimating guard is missing.
placeTileRejects_NoAnimatingGuard(q, r) ==
    \/ gameOver
    \/ ~isValidHex(q, r) \/ MapHas(tiles, hexKey(q, r))
    \/ (currentPlayer = WHITE /\ whiteTilesRemaining <= 0)
    \/ (currentPlayer = BLACK /\ blackTilesRemaining <= 0)

\* Mutant of placeTileRejects: an occupied cell is not refused.
placeTileRejects_NoOccupiedCheck(q, r) ==
    \/ gameOver \/ isAnimating
    \/ ~isValidHex(q, r)
    \/ (currentPlayer = WHITE /\ whiteTilesRemaining <= 0)
    \/ (currentPlayer = BLACK /\ blackTilesRemaining <= 0)

\* Mutant of placeTileRejects: a cell off the board is not refused.
placeTileRejects_NoValidityCheck(q, r) ==
    \/ gameOver \/ isAnimating
    \/ MapHas(tiles, hexKey(q, r))
    \/ (currentPlayer = WHITE /\ whiteTilesRemaining <= 0)
    \/ (currentPlayer = BLACK /\ blackTilesRemaining <= 0)

\* placeTile's early returns.
placeTileRejects(q, r) ==
    \/ gameOver \/ isAnimating
    \/ ~isValidHex(q, r) \/ MapHas(tiles, hexKey(q, r))
    \/ (currentPlayer = WHITE /\ whiteTilesRemaining <= 0)
    \/ (currentPlayer = BLACK /\ blackTilesRemaining <= 0)

\* showGameOver: the modal's text for the board t.
showGameOver(t) ==
    LET scores == countTiles(t)
    IN  [hidden |-> FALSE,
         winnerText |-> IF scores.white > scores.black THEN "White Wins!"
                        ELSE IF scores.black > scores.white THEN "Black Wins!"
                        ELSE "It's a Tie!",
         finalScore |-> "Final Score: White " \o ToString(scores.white)
                        \o " - Black " \o ToString(scores.black)]

\* Mutant of finishTurn: the players are switched when the game ends, too.
finishTurn_AlwaysSwitches(t, white, black) ==
    IF white = 0 /\ black = 0
    THEN [gameOver |-> TRUE, currentPlayer |-> Opponent(currentPlayer), modal |-> showGameOver(t)]
    ELSE [gameOver |-> gameOver, currentPlayer |-> Opponent(currentPlayer), modal |-> modal]

\* Mutant of finishTurn: the game ends only below supply 0.
finishTurn_WrongSupplyTest(t, white, black) ==
    IF white < 0 /\ black < 0
    THEN [gameOver |-> TRUE, currentPlayer |-> currentPlayer, modal |-> showGameOver(t)]
    ELSE [gameOver |-> gameOver, currentPlayer |-> Opponent(currentPlayer), modal |-> modal]

\* Mutant of finishTurn: the game ends as soon as White's supply is 0.
finishTurn_WhiteOnly(t, white, black) ==
    IF white = 0
    THEN [gameOver |-> TRUE, currentPlayer |-> currentPlayer, modal |-> showGameOver(t)]
    ELSE [gameOver |-> gameOver, currentPlayer |-> Opponent(currentPlayer), modal |-> modal]

\* Mutant of finishTurn: the players are not switched.
finishTurn_KeepsPlayer(t, white, black) ==
    IF white = 0 /\ black = 0
    THEN [gameOver |-> TRUE, currentPlayer |-> currentPlayer, modal |-> showGameOver(t)]
    ELSE [gameOver |-> gameOver, currentPlayer |-> currentPlayer, modal |-> modal]

\* finishTurn, run on the board t with the supplies white and black: the
\* new gameOver, currentPlayer and modal.
finishTurn(t, white, black) ==
    IF white = 0 /\ black = 0
    THEN [gameOver |-> TRUE, currentPlayer |-> currentPlayer, modal |-> showGameOver(t)]
    ELSE [gameOver |-> gameOver, currentPlayer |-> Opponent(currentPlayer), modal |-> modal]

PlaceTile(q, r) ==
    /\ IF placeTileRejects(q, r)
       THEN /\ call' = [op |-> "placeTile", q |-> q, r |-> r, ret |-> FALSE]
            /\ UNCHANGED <<gameVars, timers, modal, turn, resets>>
       ELSE LET player == currentPlayer
                placed == MapSet(tiles, hexKey(q, r), player)
                white == IF player = WHITE THEN whiteTilesRemaining - 1 ELSE whiteTilesRemaining
                black == IF player = WHITE THEN blackTilesRemaining ELSE blackTilesRemaining - 1
                othelloFlips == getOthelloFlips(placed, q, r, player)
                surroundedFlips == getSurroundedFlips(placed, player)
                allFlips == MergeFlips(othelloFlips, surroundedFlips)
                done == finishTurn(placed, white, black)
            IN  /\ tiles' = placed
                /\ whiteTilesRemaining' = white
                /\ blackTilesRemaining' = black
                /\ lastPlacedTile' = [q |-> q, r |-> r, player |-> player]
                /\ IF Len(allFlips) > 0
                   THEN /\ isAnimating' = TRUE
                        /\ timers' \in AddTimers(timers, animateFlips(allFlips, player),
                                                 [game |-> resets, move |-> Placed + 1])
                        /\ UNCHANGED <<currentPlayer, gameOver, modal>>
                   ELSE /\ gameOver' = done.gameOver
                        /\ currentPlayer' = done.currentPlayer
                        /\ modal' = done.modal
                        /\ UNCHANGED <<isAnimating, timers>>
                /\ call' = [op |-> "placeTile", q |-> q, r |-> r, ret |-> TRUE]
                /\ turn' = [id |-> [game |-> resets, move |-> Placed + 1],
                            active |-> TRUE, finished |-> Len(allFlips) = 0,
                            player |-> player, q |-> q, r |-> r,
                            before |-> tiles, white |-> whiteTilesRemaining,
                            black |-> blackTilesRemaining,
                            othello |-> othelloFlips, surrounded |-> surroundedFlips,
                            flips |-> allFlips, applied |-> 0]
                /\ UNCHANGED resets

\* History of a callback that runs: the placement that scheduled it.
CallbackCall(op) ==
    [op |-> op, q |-> 0, r |-> 0, ret |-> FALSE, placement |-> Head(timers).placement]

\* The callback of one flip batch.
FlipBatch ==
    /\ timers # <<>>
    /\ Head(timers).kind = "flips"
    /\ tiles' = flipTiles(tiles, Head(timers).flips, Head(timers).newPlayer)
    /\ timers' = AfterFiring(timers)
    /\ call' = CallbackCall("flipBatch")
    /\ turn' = IF Head(timers).placement = turn.id
               THEN [turn EXCEPT !.applied = @ + 1] ELSE turn
    /\ UNCHANGED <<currentPlayer, whiteTilesRemaining, blackTilesRemaining,
                   lastPlacedTile, gameOver, isAnimating, modal, resets>>

\* The last callback of animateFlips: isAnimating = false; finishTurn().
FinishTimer ==
    /\ timers # <<>>
    /\ Head(timers).kind = "finish"
    /\ LET done == finishTurn(tiles, whiteTilesRemaining, blackTilesRemaining)
       IN  /\ isAnimating' = FALSE
           /\ gameOver' = done.gameOver
           /\ currentPlayer' = done.currentPlayer
           /\ modal' = done.modal
    /\ timers' = AfterFiring(timers)
    /\ call' = CallbackCall("finishTurn")
    /\ turn' = IF Head(timers).placement = turn.id
               THEN [turn EXCEPT !.finished = TRUE] ELSE turn
    /\ UNCHANGED <<tiles, whiteTilesRemaining, blackTilesRemaining, lastPlacedTile, resets>>

\* Time passes between two events: ms milliseconds go by and no callback
\* runs (setTimeout promises a minimum delay only: a callback whose delay is
\* over waits until the thread is free). What is left of every pending
\* delay is ms less, and nothing once the delay is over; the delay each
\* callback was registered with is kept, AddTimer orders later callbacks by
\* it. With no callback pending the passing of time changes nothing the
\* program reads.
TimePasses(ms) ==
    /\ ms >= 1
    /\ timers # <<>>
    /\ timers' = [i \in 1..Len(timers) |->
                     [timers[i] EXCEPT !.due = IF @ > ms THEN @ - ms ELSE 0]]
    /\ call' = NoCall("timePasses")
    /\ UNCHANGED <<gameVars, modal, turn, resets>>

\* resetGame: a new gameState object; the pending timers are not cleared.
\* The history keeps the last accepted placement while callbacks of it are
\* pending.
ResetGame ==
    /\ resets < MaxResets
    /\ Placed <= ScriptLen + ResetWindow \/ gameOver
    /\ currentPlayer' = WHITE
    /\ tiles' = <<>>
    /\ whiteTilesRemaining' = TILES_PER_PLAYER
    /\ blackTilesRemaining' = TILES_PER_PLAYER
    /\ lastPlacedTile' = [q |-> 0, r |-> 0, player |-> "null"]
    /\ gameOver' = FALSE
    /\ isAnimating' = FALSE
    /\ modal' = [modal EXCEPT !.hidden = TRUE]
    /\ call' = NoCall("resetGame")
    /\ resets' = resets + 1
    /\ turn' = IF \E i \in 1..Len(timers) : timers[i].placement = turn.id
               THEN turn ELSE NoTurn
    /\ UNCHANGED timers

Next ==
    \/ \E c \in Clicks : PlaceTile(c.q, c.r)
    \/ FlipBatch
    \/ FinishTimer
    \/ \E ms \in Waits : TimePasses(ms)
    \/ ResetGame

Spec == Init /\ [][Next]_vars

\* ------------------------------------------------------------ reading the history
\* The cells of the board, and the owner of a cell on a board t, read
\* entry by entry ("empty" for a cell without a tile).
BoardCells ==
    {c \in [q : (1 - GRID_SIZE)..(GRID_SIZE - 1), r : (1 - GRID_SIZE)..(GRID_SIZE - 1)] :
        c.q + c.r < GRID_SIZE /\ c.q + c.r > -GRID_SIZE}
OnBoard(c) == c \in BoardCells
OwnerAtKey(t, key) ==
    IF \E i \in 1..Len(t) : t[i].key = key
    THEN t[CHOOSE i \in 1..Len(t) : t[i].key = key].player
    ELSE "empty"
OwnerAt(t, c) == OwnerAtKey(t, hexKey(c.q, c.r))
Occupied(t) == {c \in BoardCells : OwnerAt(t, c) # "empty"}
Step(c, d, k) == [q |-> c.q + k * directions[d].q, r |-> c.r + k * directions[d].r]
CellsOf(flips) == {[q |-> flips[i].q, r |-> flips[i].r] : i \in 1..Len(flips)}
\* The longest run a line of the board can hold between two end cells.
MaxRun == 2 * GRID_SIZE - 3

\* The last accepted placement: its cell, and the board right after the
\* tile was put down, before any flip.
PlacedCell == [q |-> turn.q, r |-> turn.r]
Snapshot == Append(turn.before, [key |-> hexKey(turn.q, turn.r), player |-> turn.player])
\* The state is the one placeTile returned true in.
JustPlaced == call.op = "placeTile" /\ call.ret
\* The ranks of the merged capture set, and the cells of each rank.
RanksOf(flips) == {flips[i].distance : i \in 1..Len(flips)}
RankIndex(flips, rank) == Cardinality({x \in RanksOf(flips) : x <= rank})

\* ------------------------------------------------------------ whole games
\* placeTile(q, r) by `player` on board t with every flip batch run: the
\* board when the placement's finishTurn runs.
ResolvePlacement(t, q, r, player) ==
    LET placed == MapSet(t, hexKey(q, r), player)
        allFlips == MergeFlips(getOthelloFlips(placed, q, r, player),
                               getSurroundedFlips(placed, player))
    IN  flipTiles(placed, allFlips, player)

\* The player of the n-th accepted placement of a game: White opens and
\* finishTurn switches the player after every placement.
PlayerOfPlacement(n) == IF n % 2 = 1 THEN WHITE ELSE BLACK

\* The board after the clicks n..last of the opening, played on board t.
RECURSIVE PlayScript(_, _, _)
PlayScript(t, n, last) ==
    IF n > last \/ Len(t) < 0 THEN t
    ELSE PlayScript(ResolvePlacement(t, OpeningScript[n].q, OpeningScript[n].r,
                                     PlayerOfPlacement(n)),
                    n + 1, last)
BoardAfterScript(n) == PlayScript(<<>>, 1, n)

\* The boards of the games that have gone n accepted placements past the
\* opening, each on an empty cell of the east corner.
RECURSIVE FreeBoards(_)
FreeBoards(n) ==
    IF n = 0 THEN {BoardAfterScript(ScriptLen)}
    ELSE UNION { {ResolvePlacement(b, c.q, c.r, PlayerOfPlacement(ScriptLen + n)) :
                    c \in {a \in Arena : ~MapHas(b, hexKey(a.q, a.r))}} :
                 b \in FreeBoards(n - 1) }
GameBoards == [n \in 0..(FreeMoves - 1) |-> FreeBoards(n)]

\* ------------------------------------------------------------ one game, played on
\* One game without resetGame in which every scheduled callback runs (the
\* browser runs every timer) and the players keep clicking until a click is
\* accepted. The fairness conditions name the steps by what tells them
\* apart from every other step of the game.
\* FlipBatchFires is the step of FlipBatch: the first pending callback is a
\* flip batch and leaves the timer list (what it does to the board is in
\* FlipBatch).
FlipBatchFires ==
    /\ timers # <<>>
    /\ Head(timers).kind = "flips"
    /\ timers' = AfterFiring(timers)

\* AcceptedPlacement is the step in which placeTile returns true: the tile
\* is put on the clicked cell and taken from the supply of the player to
\* move (what else placeTile does then is in PlaceTile).
AcceptedPlacement ==
    \E c \in Clicks :
        /\ ~placeTileRejects(c.q, c.r)
        /\ tiles' = MapSet(tiles, hexKey(c.q, c.r), currentPlayer)
        /\ whiteTilesRemaining' =
               IF currentPlayer = WHITE THEN whiteTilesRemaining - 1 ELSE whiteTilesRemaining
        /\ blackTilesRemaining' =
               IF currentPlayer = WHITE THEN blackTilesRemaining ELSE blackTilesRemaining - 1
        /\ call' = [op |-> "placeTile", q |-> c.q, r |-> c.r, ret |-> TRUE]

LiveNext ==
    \/ \E c \in Clicks : PlaceTile(c.q, c.r)
    \/ FlipBatch
    \/ FinishTimer
    \/ \E ms \in Waits : TimePasses(ms)

LiveSpec ==
    /\ Init /\ [][LiveNext]_vars
    /\ WF_timers(FlipBatchFires) /\ WF_vars(FinishTimer) /\ WF_tiles(AcceptedPlacement)

\* ------------------------------------------------------------ short games
\* render() computes both players' zones of control on the current board.
\* The short games open anywhere on the board and go on in the east corner;
\* after any step the zone of control of a player is computed and kept in
\* the history.
getAllValidHexes ==
    {h \in [q : (-(GRID_SIZE - 1))..(GRID_SIZE - 1), r : (-(GRID_SIZE - 1))..(GRID_SIZE - 1)] :
        isValidHex(h.q, h.r)}
ZocClicks == IF Placed = 0 THEN getAllValidHexes ELSE Arena

ComputeZOC(player) ==
    /\ call' = [op |-> "calculateZOC", q |-> 0, r |-> 0, ret |-> FALSE,
                player |-> player, zoc |-> calculateZOC(tiles, player)]
    /\ UNCHANGED <<gameVars, timers, modal, turn, resets>>

ZocNext ==
    \/ \E c \in ZocClicks : Placed < ZocMoves /\ PlaceTile(c.q, c.r)
    \/ FlipBatch
    \/ FinishTimer
    \/ \E ms \in Waits : TimePasses(ms)
    \/ \E player \in PLAYER : ComputeZOC(player)

ZocSpec == Init /\ [][ZocNext]_vars

\* ------------------------------------------------------------ a second game
\* Two games played one after the other: the first is the opening,
\* resetGame is pressed after its last placement (the callbacks of that
\* placement may be pending), and the second game is played to its end
\* along RematchScript: the opening but its last placement, two more tiles
\* for each player next to their groups, then White on the corner cell and
\* Black on the neighbour that surrounds it.
RematchScript ==
    SubSeq(OpeningScript, 1, Len(OpeningScript) - 1)
        \o << [q |-> -3, r |-> -1], [q |-> -1, r |-> 4], [q |-> -3, r |-> 0],
              [q |-> -1, r |-> 5], [q |-> 7, r |-> 0], [q |-> 6, r |-> 0] >>

RematchClicks ==
    LET script == IF resets = 0 THEN OpeningScript ELSE RematchScript
    IN  IF Placed < Len(script) THEN {script[Placed + 1]} ELSE {}

RematchNext ==
    \/ \E c \in RematchClicks : PlaceTile(c.q, c.r)
    \/ FlipBatch
    \/ FinishTimer
    \/ \E ms \in Waits : TimePasses(ms)
    \/ Placed = Len(OpeningScript) /\ ResetGame

RematchSpec == Init /\ [][RematchNext]_vars

\* ------------------------------------------------------------ C1
\* C1: within one game (no resetGame), while a placement with a non-empty
\* capture set is being resolved (from its acceptance until its finishTurn:
\* exactly the states with isAnimating true), every placeTile call returns
\* false and changes neither tiles, supplies, currentPlayer nor gameOver,
\* and the pending timers are those of that one placement: its batches not
\* yet applied, in order, then its finish callback.
C1_Staging ==
    resets = 0 =>
        /\ isAnimating <=> (turn.active /\ ~turn.finished)
        /\ isAnimating <=> timers # <<>>
        /\ turn.active /\ ~turn.finished => turn.flips # <<>>
        /\ isAnimating =>
              LET all == animateFlips(turn.flips, turn.player)
              IN  /\ turn.applied < Len(all)
                  /\ Len(timers) = Len(all) - turn.applied
                  /\ \A i \in 1..Len(timers) :
                        /\ timers[i].kind = all[i + turn.applied].kind
                        /\ timers[i].flips = all[i + turn.applied].flips
                        /\ timers[i].newPlayer = turn.player
C1_NoPlacementWhileAnimating ==
    [][ (resets = 0 /\ isAnimating /\ call'.op = "placeTile") =>
            /\ call'.ret = FALSE
            /\ UNCHANGED <<tiles, whiteTilesRemaining, blackTilesRemaining,
                           currentPlayer, gameOver>> ]_vars
C1_Theorem == []C1_Staging /\ C1_NoPlacementWhileAnimating

\* A click on an empty cell of the board was refused because flips are
\* still being staged.
C1_Witness ==
    /\ resets = 0 /\ isAnimating /\ ~gameOver
    /\ call.op = "placeTile" /\ call.ret = FALSE
    /\ OnBoard([q |-> call.q, r |-> call.r])
    /\ OwnerAt(tiles, [q |-> call.q, r |-> call.r]) = "empty"
    /\ turn.applied = 1 /\ Len(timers) >= 2

\* ------------------------------------------------------------ C2
\* The reference set of line captures of a tile of player P placed at p on
\* board t: the cells of every run of opponent tiles that starts next to p
\* in one of the 6 directions and is ended by a tile of P.
LineCaptureRef(t, p, P) ==
    UNION { {Step(p, d, k) : k \in 1..m} :
            <<d, m>> \in { dm \in (1..6) \X (1..MaxRun) :
                /\ \A j \in 1..dm[2] :
                      /\ OnBoard(Step(p, dm[1], j))
                      /\ OwnerAt(t, Step(p, dm[1], j)) = Opponent(P)
                /\ OnBoard(Step(p, dm[1], dm[2] + 1))
                /\ OwnerAt(t, Step(p, dm[1], dm[2] + 1)) = P } }

\* C2: the cells getOthelloFlips returns for a placement are exactly the
\* reference set of line captures, computed on the board with the placed
\* tile: runs ended by an empty cell or the board edge contribute nothing.
C2_Theorem ==
    JustPlaced => CellsOf(turn.othello) = LineCaptureRef(Snapshot, PlacedCell, turn.player)

\* A placement that line-captures a run of two tiles in one direction while
\* another direction holds an adjacent opponent tile that is not captured.
C2_Witness ==
    /\ JustPlaced
    /\ \E i \in 1..Len(turn.othello) : turn.othello[i].distance = 2
    /\ \E d \in 1..6 :
          /\ OwnerAt(Snapshot, Step(PlacedCell, d, 1)) = Opponent(turn.player)
          /\ Step(PlacedCell, d, 1) \notin CellsOf(turn.othello)

\* ------------------------------------------------------------ C3
\* Cell c is in player P's zone of control on board t: it holds a tile of P
\* or is next to one.
InZocRef(t, P, c) ==
    \/ OwnerAt(t, c) = P
    \/ \E d \in 1..6 : OnBoard(Step(c, d, 1)) /\ OwnerAt(t, Step(c, d, 1)) = P
\* S: the opponent tiles all of whose on-board neighbours are in P's zone.
SurroundedRef(t, P) ==
    {c \in BoardCells :
        /\ OwnerAt(t, c) = Opponent(P)
        /\ \A d \in 1..6 : OnBoard(Step(c, d, 1)) => InZocRef(t, P, Step(c, d, 1))}
\* R: the cells of the straight runs of opponent tiles that start next to
\* a tile of S.
RunRef(t, P, S) ==
    UNION { {Step(sdk[1], sdk[2], j) : j \in 1..sdk[3]} :
            sdk \in { x \in S \X (1..6) \X (1..(MaxRun + 1)) :
                        \A j \in 1..x[3] :
                            /\ OnBoard(Step(x[1], x[2], j))
                            /\ OwnerAt(t, Step(x[1], x[2], j)) = Opponent(P) } }

\* C3: the cells getSurroundedFlips returns for a placement are exactly
\* S \cup R, computed on the board that holds the placed tile.
C3_Theorem ==
    JustPlaced =>
        LET S == SurroundedRef(Snapshot, turn.player)
        IN  CellsOf(turn.surrounded) = S \cup RunRef(Snapshot, turn.player, S)

\* A placement that surrounds a tile with a neighbour off the board and a
\* tile with all 6 neighbours on the board, and captures a run tile that is
\* not itself surrounded.
C3_Witness ==
    /\ JustPlaced
    /\ LET S == SurroundedRef(Snapshot, turn.player)
       IN  /\ \E s \in S : \E d \in 1..6 : ~OnBoard(Step(s, d, 1))
           /\ \E s \in S : \A d \in 1..6 : OnBoard(Step(s, d, 1))
           /\ CellsOf(turn.surrounded) \ S # {}

\* ------------------------------------------------------------ C4
\* The state is the one the last accepted placement's finishTurn ended in.
RightAfterFinish ==
    /\ turn.active /\ turn.finished
    /\ (call.op = "finishTurn" /\ call.placement = turn.id) \/ JustPlaced

\* C4: within one game, right after the finishTurn of an accepted placement
\* by P at c with merged capture set K: c and the cells of K are owned by
\* P, every other cell is as it was before the placement, P's supply is one
\* lower and the opponent's supply is unchanged.
C4_Theorem ==
    (resets = 0 /\ RightAfterFinish) =>
        LET K == CellsOf(turn.flips)
            P == turn.player
        IN  /\ OwnerAt(tiles, PlacedCell) = P
            /\ \A k \in K : OwnerAt(tiles, k) = P
            /\ \A x \in BoardCells \ (K \cup {PlacedCell}) :
                  OwnerAt(tiles, x) = OwnerAt(turn.before, x)
            /\ Len(tiles) = Len(turn.before) + 1
            /\ whiteTilesRemaining = IF P = WHITE THEN turn.white - 1 ELSE turn.white
            /\ blackTilesRemaining = IF P = BLACK THEN turn.black - 1 ELSE turn.black

\* The finish callback of a placement has run whose capture set held three
\* or more cells, two of them in the same batch.
C4_Witness ==
    /\ resets = 0 /\ RightAfterFinish /\ call.op = "finishTurn"
    /\ Len(turn.flips) >= 3
    /\ \E i, j \in 1..Len(turn.flips) :
          i # j /\ turn.flips[i].distance = turn.flips[j].distance

\* ------------------------------------------------------------ C5
\* C5: the merged capture set of a placement has at most one entry per
\* cell, its cells are those of the line captures and of the surround
\* captures together, and a cell captured by both rules has the rank the
\* line capture recorded for it.
C5_Theorem ==
    JustPlaced =>
        LET F == turn.flips
            O == turn.othello
        IN  /\ \A i, j \in 1..Len(F) : (F[i].q = F[j].q /\ F[i].r = F[j].r) => i = j
            /\ CellsOf(F) = CellsOf(O) \cup CellsOf(turn.surrounded)
            /\ \A i \in 1..Len(F), j \in 1..Len(O) :
                  (F[i].q = O[j].q /\ F[i].r = O[j].r) => F[i].distance = O[j].distance

\* A placement where a cell is captured by both rules and the surround
\* capture records it, each time, with another rank than the line capture.
C5_Witness ==
    /\ JustPlaced
    /\ \E j \in 1..Len(turn.othello) :
          /\ \E i \in 1..Len(turn.surrounded) :
                turn.surrounded[i].q = turn.othello[j].q /\ turn.surrounded[i].r = turn.othello[j].r
          /\ \A i \in 1..Len(turn.surrounded) :
                (turn.surrounded[i].q = turn.othello[j].q /\ turn.surrounded[i].r = turn.othello[j].r)
                    => turn.surrounded[i].distance # turn.othello[j].distance

\* ------------------------------------------------------------ C6
\* The step runs finishTurn: the finish callback, or a placeTile call that
\* accepts a placement without captures.
FinishTurnStep ==
    \/ call'.op = "finishTurn"
    \/ call'.op = "placeTile" /\ call'.ret /\ turn'.flips = <<>>

\* C6: within one game, a step that runs finishTurn ends the game without
\* switching the player when both supplies are 0, and otherwise leaves
\* gameOver false and gives the move to the other player; no other step
\* changes currentPlayer or gameOver.  So White's first placement on the
\* empty board captures nothing, leaves White 19 tiles and Black to move.
C6_Theorem ==
    [][ resets' = 0 =>
          /\ IF FinishTurnStep
             THEN IF whiteTilesRemaining' = 0 /\ blackTilesRemaining' = 0
                  THEN gameOver' /\ currentPlayer' = currentPlayer
                  ELSE ~gameOver /\ ~gameOver' /\ currentPlayer' = Opponent(currentPlayer)
             ELSE UNCHANGED <<currentPlayer, gameOver>>
          /\ (tiles = <<>> /\ call'.op = "placeTile" /\ call'.ret) =>
                /\ currentPlayer = WHITE /\ turn'.flips = <<>>
                /\ whiteTilesRemaining' = TILES_PER_PLAYER - 1
                /\ blackTilesRemaining' = TILES_PER_PLAYER
                /\ currentPlayer' = BLACK /\ ~gameOver' ]_vars

\* The finish callback of the last placement has ended the game, and Black,
\* who placed last, is still the current player.
C6_Witness ==
    /\ resets = 0 /\ gameOver /\ call.op = "finishTurn"
    /\ turn.player = BLACK /\ currentPlayer = BLACK
    /\ whiteTilesRemaining = 0 /\ blackTilesRemaining = 0

\* ------------------------------------------------------------ C7
\* C7: when both supplies are 0 and no flips are being staged, gameOver is
\* true; while gameOver is true a placeTile call returns false and changes
\* neither tiles, supplies, currentPlayer nor gameOver, and only resetGame
\* changes the game state.
C7_Over == (whiteTilesRemaining = 0 /\ blackTilesRemaining = 0 /\ ~isAnimating) => gameOver
C7_Terminal ==
    [][ gameOver =>
          /\ call'.op = "placeTile" =>
                /\ call'.ret = FALSE
                /\ UNCHANGED <<tiles, whiteTilesRemaining, blackTilesRemaining,
                               currentPlayer, gameOver>>
          /\ UNCHANGED gameVars \/ call'.op = "resetGame" ]_vars
C7_Theorem == []C7_Over /\ C7_Terminal

\* After the game has ended, a click on an empty cell of the board was
\* refused.
C7_Witness ==
    /\ gameOver /\ call.op = "placeTile" /\ call.ret = FALSE
    /\ OnBoard([q |-> call.q, r |-> call.r])
    /\ OwnerAt(tiles, [q |-> call.q, r |-> call.r]) = "empty"

\* ------------------------------------------------------------ C8
\* C8: a placeTile call returns false when the cell is off the board, the
\* cell is occupied, the current player's supply is 0 or the game is over,
\* and a call that returns false changes neither tiles, supplies,
\* currentPlayer, gameOver nor isAnimating.
C8_Theorem ==
    [][ call'.op = "placeTile" =>
          LET c == [q |-> call'.q, r |-> call'.r]
              supply == IF currentPlayer = WHITE THEN whiteTilesRemaining
                        ELSE blackTilesRemaining
          IN  /\ (~OnBoard(c) \/ OwnerAt(tiles, c) # "empty" \/ supply = 0 \/ gameOver)
                    => call'.ret = FALSE
              /\ call'.ret = FALSE =>
                    UNCHANGED <<tiles, whiteTilesRemaining, blackTilesRemaining,
                                currentPlayer, gameOver, isAnimating>> ]_vars

\* While a placement is awaited, a click on an occupied cell was refused.
C8_Witness ==
    /\ call.op = "placeTile" /\ call.ret = FALSE
    /\ ~gameOver /\ ~isAnimating
    /\ OwnerAt(tiles, [q |-> call.q, r |-> call.r]) # "empty"
    /\ (IF currentPlayer = WHITE THEN whiteTilesRemaining ELSE blackTilesRemaining) > 0

\* ------------------------------------------------------------ C9
\* C9: after i flip callbacks of a placement of the game being played have
\* run, exactly the cells of its i smallest ranks are flipped to the placing
\* player and the cells of the higher ranks still belong to the opponent;
\* finishTurn has run only when every batch is applied, and until then the
\* placing player is the current player, the game is not over and the
\* placement is still being staged.
C9_Claim ==
    (turn.active /\ turn.id.game = resets) =>
        LET F == turn.flips
            n == Cardinality(RanksOf(F))
        IN  /\ turn.applied <= n
            /\ \A i \in 1..Len(F) :
                  OwnerAt(tiles, [q |-> F[i].q, r |-> F[i].r])
                    = IF RankIndex(F, F[i].distance) <= turn.applied
                      THEN turn.player ELSE Opponent(turn.player)
            /\ turn.finished => turn.applied = n
            /\ ~turn.finished => (currentPlayer = turn.player /\ ~gameOver /\ isAnimating)

\* ------------------------------------------------------------ C10
\* C10: when the game is over every flip of the last placement has been
\* applied, and the winner text names White iff White owns more tiles than
\* Black on that board, Black iff Black owns more, and a tie iff both own
\* the same number.
C10_Claim ==
    gameOver =>
        LET white == Cardinality({i \in 1..Len(tiles) : tiles[i].player = WHITE})
            black == Cardinality({i \in 1..Len(tiles) : tiles[i].player = BLACK})
        IN  /\ \A i \in 1..Len(turn.flips) :
                  OwnerAt(tiles, [q |-> turn.flips[i].q, r |-> turn.flips[i].r]) = turn.player
            /\ modal.winnerText = "White Wins!" <=> white > black
            /\ modal.winnerText = "Black Wins!" <=> black > white
            /\ modal.winnerText = "It's a Tie!" <=> white = black
            /\ ~modal.hidden

\* ------------------------------------------------------------ C11
\* C11: in every reachable state each player's remaining supply is an
\* integer between 0 and TILES_PER_PLAYER; it is TILES_PER_PLAYER when a
\* game starts (at construction and right after resetGame); within a game
\* (every step but resetGame) it never increases; and gameOver is true only
\* in states where both supplies are 0.
C11_Range ==
    /\ whiteTilesRemaining \in 0..TILES_PER_PLAYER
    /\ blackTilesRemaining \in 0..TILES_PER_PLAYER
    /\ call.op \in {"init", "resetGame"} =>
           whiteTilesRemaining = TILES_PER_PLAYER /\ blackTilesRemaining = TILES_PER_PLAYER
    /\ gameOver => whiteTilesRemaining = 0 /\ blackTilesRemaining = 0
C11_NeverIncreases ==
    [][resets' = resets =>
          /\ whiteTilesRemaining' <= whiteTilesRemaining
          /\ blackTilesRemaining' <= blackTilesRemaining]_vars
C11_Theorem == []C11_Range /\ C11_NeverIncreases

\* White has placed the last tile of its supply, Black still holds one, and
\* the game is not over.
C11_Witness ==
    /\ JustPlaced /\ turn.player = WHITE
    /\ whiteTilesRemaining = 0 /\ blackTilesRemaining = 1
    /\ ~gameOver

\* ------------------------------------------------------------ C12
\* C12: in every reachable state, whatever placeTile calls, flip batches,
\* finishTurn and resetGame came before, every key of the tiles map reads as
\* a coordinate with |q| < 8, |r| < 8 and |q + r| < 8, and its value is one of
\* the two players.
C12_Theorem ==
    \A i \in 1..Len(tiles) :
        /\ tiles[i].key \in DOMAIN KeyCoords
        /\ LET c == KeyCoords[tiles[i].key]
           IN  /\ -GRID_SIZE < c.q /\ c.q < GRID_SIZE
               /\ -GRID_SIZE < c.r /\ c.r < GRID_SIZE
               /\ -GRID_SIZE < c.q + c.r /\ c.q + c.r < GRID_SIZE
        /\ tiles[i].player \in {"white", "black"}

\* A flip batch scheduled before a resetGame has run after it and has put
\* tiles on the new board; one of them lies on the board's edge.
C12_Witness ==
    /\ resets = 1 /\ call.op = "flipBatch"
    /\ \E i \in 1..Len(tiles) :
           LET c == KeyCoords[tiles[i].key]
           IN  c.q = GRID_SIZE - 1 \/ c.r = 1 - GRID_SIZE \/ c.q + c.r = GRID_SIZE - 1

\* ------------------------------------------------------------ C13
\* C13: calculateZOC(player) returns exactly the on-board coordinates that
\* hold a tile of that player or are one of the 6 neighbours of such a tile:
\* it contains every tile of the player and no off-board coordinate, it has
\* exactly 7 members for a single tile at the origin and fewer for a single
\* tile on the edge of the board, and computing it changes no game state.
OnEdge(c) ==
    \/ c.q \in {1 - GRID_SIZE, GRID_SIZE - 1}
    \/ c.r \in {1 - GRID_SIZE, GRID_SIZE - 1}
    \/ c.q + c.r \in {1 - GRID_SIZE, GRID_SIZE - 1}
C13_Result ==
    call.op = "calculateZOC" =>
        LET P == call.player
            zoc == call.zoc
            mine == {i \in 1..Len(tiles) : tiles[i].player = P}
        IN  /\ zoc \subseteq DOMAIN KeyCoords
            /\ {KeyCoords[k] : k \in zoc} = {c \in BoardCells : InZocRef(tiles, P, c)}
            /\ \A i \in mine : tiles[i].key \in zoc
            /\ \A k \in zoc : OnBoard(KeyCoords[k])
            /\ \A i \in mine :
                   mine = {i} =>
                       /\ KeyCoords[tiles[i].key] = [q |-> 0, r |-> 0] => Cardinality(zoc) = 7
                       /\ OnEdge(KeyCoords[tiles[i].key]) => Cardinality(zoc) < 7
C13_NoEffect ==
    [][call'.op = "calculateZOC" => UNCHANGED <<gameVars, timers, modal>>]_vars
C13_Theorem == []C13_Result /\ C13_NoEffect

\* The zone of control of a player whose only tile lies in a corner of the
\* board has been computed.
C13_Witness ==
    /\ call.op = "calculateZOC"
    /\ \E i \in 1..Len(tiles) :
           /\ {j \in 1..Len(tiles) : tiles[j].player = call.player} = {i}
           /\ tiles[i].key = "7,0"
    /\ Cardinality(call.zoc) = 4

\* ------------------------------------------------------------ C14
\* Why the placement (q, r) is to be rejected in the current state, by the
\* five kinds of the error taxonomy ("none" when it is to be accepted).
RejectReasonRef(q, r) ==
    IF gameOver THEN "GameAlreadyOver"
    ELSE IF isAnimating THEN "CapturesInProgress"
    ELSE IF ~OnBoard([q |-> q, r |-> r]) THEN "InvalidCoordinate"
    ELSE IF OwnerAt(tiles, [q |-> q, r |-> r]) # "empty" THEN "CellOccupied"
    ELSE IF (IF currentPlayer = WHITE THEN whiteTilesRemaining ELSE blackTilesRemaining) = 0
         THEN "SupplyExhausted"
    ELSE "none"

\* C14: the results of two rejected placements tell their reasons apart.
\* Two rejected calls in a row meet the same game state, so the reason of
\* the earlier one can be read in the state between them: when the reasons
\* differ, the returned values differ.
C14_Claim ==
    [][(/\ call.op = "placeTile" /\ ~call.ret
        /\ call'.op = "placeTile" /\ UNCHANGED gameVars
        /\ RejectReasonRef(call.q, call.r) # "none"
        /\ RejectReasonRef(call'.q, call'.r) # "none"
        /\ RejectReasonRef(call.q, call.r) # RejectReasonRef(call'.q, call'.r))
       => call'.ret # call.ret]_vars

\* ------------------------------------------------------------ C15
\* The cells either rule captures for player P placing at p, on board t.
CaptureRef(t, p, P) ==
    LET S == SurroundedRef(t, P)
    IN  LineCaptureRef(t, p, P) \cup S \cup RunRef(t, P, S)

Abs(x) == IF x < 0 THEN -x ELSE x
Max3(a, b, c) == IF a >= b /\ a >= c THEN a ELSE IF b >= c THEN b ELSE c
HexDistance(a, b) == Max3(Abs(a.q - b.q), Abs(a.r - b.r), Abs((a.q + a.r) - (b.q + b.r)))
\* The entries of the merged capture set whose cell is line-captured.
LineCaptured ==
    {i \in 1..Len(turn.flips) :
        [q |-> turn.flips[i].q, r |-> turn.flips[i].r]
            \in LineCaptureRef(Snapshot, PlacedCell, turn.player)}

\* The callbacks the last accepted placement registered that are pending.
OwnTimers ==
    LET own(t) == t.placement = turn.id
    IN  SelectSeq(timers, own)

\* C16 as claimed: every line-captured cell enters the merged capture set
\* with rank 1, whatever its distance from the placed tile, so all
\* line-captures of a placement are in its first batch.
C16_Original ==
    JustPlaced =>
        /\ \A i \in LineCaptured : turn.flips[i].distance = 1
        /\ LineCaptured # {} =>
               \A i \in LineCaptured :
                   \E n \in 1..Len(OwnTimers) :
                       /\ OwnTimers[n].kind = "flips" /\ OwnTimers[n].delay = 0
                       /\ \E j \in 1..Len(OwnTimers[n].flips) :
                              OwnTimers[n].flips[j] = turn.flips[i]

\* C16, amended: every line-captured cell enters the merged capture set
\* with the rank that is its distance from the placed tile (the k-th tile
\* of a bracketed run has rank k), so the line-captures of one placement
\* are flipped in ascending distance: those next to the placed tile in the
\* first batch, each further one in the batch of its rank, one
\* delayIncrement later per rank present.
C16_Theorem ==
    JustPlaced =>
        /\ \A i \in LineCaptured :
               turn.flips[i].distance =
                   HexDistance([q |-> turn.flips[i].q, r |-> turn.flips[i].r], PlacedCell)
        /\ LineCaptured # {} =>
               /\ \E i \in LineCaptured : turn.flips[i].distance = 1
               /\ \A i \in LineCaptured :
                      \E n \in 1..Len(OwnTimers) :
                          /\ OwnTimers[n].kind = "flips"
                          /\ OwnTimers[n].delay
                                 = (RankIndex(turn.flips, turn.flips[i].distance) - 1)
                                      * delayIncrement
                          /\ timers = OwnTimers =>
                                 /\ n = RankIndex(turn.flips, turn.flips[i].distance)
                                 /\ OwnTimers[n].due = OwnTimers[n].delay
                          /\ \E j \in 1..Len(OwnTimers[n].flips) :
                                 OwnTimers[n].flips[j] = turn.flips[i]

\* A placement has been accepted that line-captures a tile two or more
\* steps away.
C16_Witness ==
    /\ JustPlaced /\ resets = 0
    /\ \E i \in LineCaptured :
           HexDistance([q |-> turn.flips[i].q, r |-> turn.flips[i].r], PlacedCell) >= 2

\* ------------------------------------------------------------ C17
\* C17: every opponent tile that is surrounded on the snapshot and is not
\* line-captured has rank 1 in the merged capture set, also when several
\* surrounded tiles lie on each other's straight runs; a placement whose
\* capture set is one isolated surrounded tile schedules exactly one batch,
\* which holds that tile.
C17_Claim ==
    JustPlaced =>
        LET P == turn.player
            S == SurroundedRef(Snapshot, P)
            L == LineCaptureRef(Snapshot, PlacedCell, P)
        IN  /\ \A c \in S \ L :
                   \E i \in 1..Len(turn.flips) :
                       /\ turn.flips[i].q = c.q /\ turn.flips[i].r = c.r
                       /\ turn.flips[i].distance = 1
            /\ \A c \in S :
                   (resets = 0 /\ S = {c} /\ L = {} /\ RunRef(Snapshot, P, S) = {}) =>
                       /\ Len(timers) = 2
                       /\ timers[1].kind = "flips"
                       /\ timers[1].flips = <<[q |-> c.q, r |-> c.r, distance |-> 1]>>
                       /\ timers[2].kind = "finish"

\* ------------------------------------------------------------ C18
\* The entries getSurroundedFlips produced for one surrounded tile start
\* with that tile, at distance 1: the surrounded tile entry i belongs to.
SurroundedTileOf(i) ==
    LET h == CHOOSE j \in 1..i :
                 /\ turn.surrounded[j].distance = 1
                 /\ \A k \in (j + 1)..i : turn.surrounded[k].distance # 1
    IN  [q |-> turn.surrounded[h].q, r |-> turn.surrounded[h].r]

\* C18: in the surround-capture entries produced for one surrounded tile T
\* the rank is the distance from T plus one: T has rank 1 and the run tile
\* k steps away from T has rank k + 1, in each of the 6 directions.
C18_Claim ==
    JustPlaced =>
        \A i \in 1..Len(turn.surrounded) :
            turn.surrounded[i].distance =
                HexDistance([q |-> turn.surrounded[i].q, r |-> turn.surrounded[i].r],
                            SurroundedTileOf(i)) + 1

\* ------------------------------------------------------------ C19
\* The cell-to-owner mapping of a board, and the merged capture set of a
\* placement read as a set of (cell, rank) entries.
MappingOf(t) == {t[i] : i \in 1..Len(t)}
EntriesOf(flips) == {flips[i] : i \in 1..Len(flips)}

\* C19: the ranked capture batches of a placement are a function of the
\* board's cell-to-owner mapping only: when a game accepts a placement on a
\* board that another game, placing the same tiles in another order, has
\* reached with the same mapping, the same placement by the same player in
\* that other game gives the same merged capture set, cells and ranks.
C19_Claim ==
    (JustPlaced /\ resets = 0 /\ Len(turn.before) >= ScriptLen) =>
        \A b \in GameBoards[Len(turn.before) - ScriptLen] :
            MappingOf(b) = MappingOf(turn.before) =>
                LET placed == MapSet(b, hexKey(turn.q, turn.r), turn.player)
                    other == MergeFlips(getOthelloFlips(placed, turn.q, turn.r, turn.player),
                                        getSurroundedFlips(placed, turn.player))
                IN  EntriesOf(other) = EntriesOf(turn.flips)

\* ------------------------------------------------------------ C20
\* The callback about to run was scheduled by a placement of the game
\* being played, one accepted after the last resetGame.
OwnCallback ==
    /\ timers # <<>>
    /\ Head(timers).placement.game = resets

C20_InitialState ==
    call.op = "resetGame" =>
        /\ tiles = <<>>
        /\ whiteTilesRemaining = TILES_PER_PLAYER /\ blackTilesRemaining = TILES_PER_PLAYER
        /\ currentPlayer = WHITE
        /\ ~gameOver /\ ~isAnimating
C20_OnlyNewPlacements ==
    [][(/\ resets >= 1 /\ resets' = resets
        /\ <<tiles, currentPlayer, gameOver>>' # <<tiles, currentPlayer, gameOver>>)
       => \/ call'.op = "placeTile" /\ call'.ret
          \/ call'.op \in {"flipBatch", "finishTurn"} /\ OwnCallback]_vars

\* C20: resetGame puts the game in its initial state (empty board, supplies
\* 20 and 20, White to move, not over, not animating), and after it the new
\* game's tiles, currentPlayer and gameOver change only through placements
\* accepted after the reset (the placeTile call or one of its callbacks),
\* also when flip batches or the finishTurn of an earlier placement were
\* still scheduled at the reset.
C20_Claim == []C20_InitialState /\ C20_OnlyNewPlacements

\* ------------------------------------------------------------ C21
\* A placement is awaited.
Awaiting == ~gameOver /\ ~isAnimating

\* C21: in a game without resetGame, in every state where a placement is
\* awaited, the supplies are equal when White is to move and White's is one
\* lower than Black's when Black is to move; so the player to move has a
\* tile left and an empty cell of the board to play, and no placeTile call
\* is rejected for an exhausted supply.
C21_Parity ==
    (resets = 0 /\ Awaiting) =>
        /\ currentPlayer = WHITE => whiteTilesRemaining = blackTilesRemaining
        /\ currentPlayer = BLACK => whiteTilesRemaining = blackTilesRemaining - 1
        /\ (IF currentPlayer = WHITE THEN whiteTilesRemaining ELSE blackTilesRemaining) > 0
        /\ \E c \in BoardCells : OwnerAt(tiles, c) = "empty"
C21_NeverExhausted ==
    [][(resets = 0 /\ call'.op = "placeTile" /\ ~call'.ret)
          => RejectReasonRef(call'.q, call'.r) # "SupplyExhausted"]_vars
C21_Theorem == []C21_Parity /\ C21_NeverExhausted

\* White's last placement captured, its finishTurn has run, and Black is
\* awaited with the one tile left in the game.
C21_Witness ==
    /\ resets = 0 /\ Awaiting /\ call.op = "finishTurn"
    /\ currentPlayer = BLACK
    /\ whiteTilesRemaining = 0 /\ blackTilesRemaining = 1

\* ------------------------------------------------------------ C22
\* The occupied cells of the board, read from the keys of the map.
OccupiedKeys(t) == {t[i].key : i \in 1..Len(t)}

\* C22: in every state of a game without resetGame the number of occupied
\* cells is (20 - whiteTilesRemaining) + (20 - blackTilesRemaining); only
\* an accepted placement adds a tile (one, on the cell it names), a flip
\* batch changes owners of occupied cells only, and an occupied cell never
\* becomes empty.
C22_Count ==
    resets = 0 =>
        Cardinality(OccupiedKeys(tiles)) =
            (TILES_PER_PLAYER - whiteTilesRemaining) + (TILES_PER_PLAYER - blackTilesRemaining)
C22_Steps ==
    [][(resets = 0 /\ resets' = 0) =>
          /\ OccupiedKeys(tiles) \subseteq OccupiedKeys(tiles')
          /\ OccupiedKeys(tiles') # OccupiedKeys(tiles) =>
                 /\ call'.op = "placeTile" /\ call'.ret
                 /\ \E c \in BoardCells :
                        /\ c.q = call'.q /\ c.r = call'.r
                        /\ OwnerAt(tiles, c) = "empty"
                        /\ OccupiedKeys(tiles') = OccupiedKeys(tiles) \cup {tiles'[Len(tiles')].key}
                        /\ KeyCoords[tiles'[Len(tiles')].key] = c
          /\ call'.op = "flipBatch" =>
                 \A i \in 1..Len(Head(timers).flips) :
                     OwnerAt(tiles, [q |-> Head(timers).flips[i].q,
                                     r |-> Head(timers).flips[i].r]) # "empty"]_vars
C22_Theorem == []C22_Count /\ C22_Steps

\* A flip batch has run in a game, for a placement one of whose batches
\* holds two or more cells: owners have changed, the count has not.
C22_Witness ==
    /\ resets = 0 /\ call.op = "flipBatch"
    /\ turn.applied >= 1
    /\ \E rank \in RanksOf(turn.flips) :
           Cardinality({i \in 1..Len(turn.flips) : turn.flips[i].distance = rank}) >= 2
    /\ Cardinality(OccupiedKeys(tiles)) = Len(turn.before) + 1

\* ------------------------------------------------------------ C23
\* C23: when every scheduled flip batch and finishTurn runs and the player
\* to move keeps asking for placements on empty cells of the board, a game
\* without resetGame reaches gameOver; every accepted placement takes one
\* tile from the supply of the player who made it and none from the
\* other's, so the game is over after 40 accepted placements, 20 by each
\* player, with 40 tiles on the board.
C23_AtTheEnd ==
    gameOver =>
        /\ whiteTilesRemaining = 0 /\ blackTilesRemaining = 0
        /\ Cardinality(OccupiedKeys(tiles)) = 2 * TILES_PER_PLAYER
C23_OneTileEach ==
    [][(call'.op = "placeTile" /\ call'.ret) =>
          /\ ~gameOver
          /\ whiteTilesRemaining' =
                 IF currentPlayer = WHITE THEN whiteTilesRemaining - 1 ELSE whiteTilesRemaining
          /\ blackTilesRemaining' =
                 IF currentPlayer = BLACK THEN blackTilesRemaining - 1 ELSE blackTilesRemaining]_vars
C23_Theorem == <>gameOver /\ []C23_AtTheEnd /\ C23_OneTileEach

\* The game is over: the finish callback of the 40th placement has run.
C23_Witness ==
    /\ gameOver /\ call.op = "finishTurn"
    /\ Cardinality(OccupiedKeys(tiles)) = 2 * TILES_PER_PLAYER
    /\ timers = <<>>

\* ------------------------------------------------------------ C24
\* The number of tiles player P has on board t.
TileCount(t, P) == Cardinality({i \in 1..Len(t) : t[i].player = P})

\* C24: every cell of the merged capture set of an accepted placement by P
\* holds, on the board the set is computed from (the board right after the
\* tile is placed), a tile of P's opponent: it is not empty, not the placed
\* cell and not P's. When the placement's finishTurn has run, P has one
\* tile more than before plus one for each cell of the set and the opponent
\* has one tile less for each cell of the set; no placeTile call and no
\* callback lowers the number of P's tiles while P's placement is the last
\* one accepted.
C24_OnlyOpponents ==
    turn.active =>
        \A i \in 1..Len(turn.flips) :
            LET c == [q |-> turn.flips[i].q, r |-> turn.flips[i].r]
            IN  /\ OwnerAt(Snapshot, c) = Opponent(turn.player)
                /\ c # PlacedCell
C24_Counts ==
    RightAfterFinish =>
        LET P == turn.player
            K == CellsOf(turn.flips)
        IN  /\ TileCount(tiles, P) = TileCount(turn.before, P) + 1 + Cardinality(K)
            /\ TileCount(tiles, Opponent(P))
                   = TileCount(turn.before, Opponent(P)) - Cardinality(K)
C24_NeverCosts ==
    [][(turn'.active /\ call'.op \in {"placeTile", "flipBatch", "finishTurn"})
          => TileCount(tiles', turn'.player) >= TileCount(tiles, turn'.player)]_vars
C24_Claim == []C24_OnlyOpponents /\ []C24_Counts /\ C24_NeverCosts

====
